---- MODULE Spec2Model ----
(***************************************************************************)
(* Long/short backtest engine (src/src/backtest.py), its statistics module *)
(* (src/src/metrics.py), the sentiment factors (src/src/factors.py,        *)
(* compute_factor of src/scripts/run_backtest.py), last_metrics and        *)
(* run_backtest_from_panel of src/src/public_api.py, and forward_returns   *)
(* and rank_and_portfolio of src/scripts/run_backtest.py.                  *)
(*                                                                         *)
(* Numbers.  A float is modelled exactly as a pair <<n, d>>: a reduced     *)
(* fraction n/d with d > 0 when finite, <<0,0>> for NaN, <<1,0>> for +inf  *)
(* and <<-1,0>> for -inf.  Division by zero therefore yields inf or NaN as *)
(* IEEE arithmetic does, and every comparison with NaN is false.           *)
(*                                                                         *)
(* A quotient x / sqrt(v) (Sharpe, Spearman) is stored as its signed       *)
(* square sign(x) * x^2 / v, an exact, order-preserving code of the value. *)
(***************************************************************************)
EXTENDS Integers, Sequences, FiniteSets, TLC

VARIABLES df, pc, todo, results, strat, columns, sharpe, mdd, metrics,
          call, ret, heap, sentiment, out, raised, fs

vars == <<df, pc, todo, results, strat, columns, sharpe, mdd, metrics,
          call, ret, heap, sentiment, out, raised, fs>>

(* ------------------------------ bounds --------------------------------- *)
MaxRows == 11
NDates == 2

(* --------------------------- float arithmetic -------------------------- *)
NaN == <<0, 0>>
Inf == <<1, 0>>
Zero == <<0, 1>>
One == <<1, 1>>
Unbound == <<0, -1>>

Abs(n) == IF n < 0 THEN -n ELSE n
Sgn(n) == IF n < 0 THEN -1 ELSE IF n > 0 THEN 1 ELSE 0

RECURSIVE Gcd(_, _)
Gcd(a, b) == IF b = 0 THEN a ELSE Gcd(b, a % b)

Q(n, d) ==
    IF d = 0 THEN <<Sgn(n), 0>>
    ELSE LET g == Gcd(Abs(n), Abs(d))
             s == Sgn(d)
         IN  <<(s * n) \div g, (s * d) \div g>>

Num(n) == <<n, 1>>
isna(x) == x = NaN
notna(x) == x # NaN

Neg(x) == <<-x[1], x[2]>>

Add(x, y) ==
    IF isna(x) \/ isna(y) THEN NaN
    ELSE IF x[2] = 0 /\ y[2] = 0 THEN (IF x[1] = y[1] THEN x ELSE NaN)
    ELSE IF x[2] = 0 THEN x
    ELSE IF y[2] = 0 THEN y
    ELSE LET g == Gcd(x[2], y[2])
         IN  Q(x[1] * (y[2] \div g) + y[1] * (x[2] \div g), (x[2] \div g) * y[2])

Sub(x, y) == Add(x, Neg(y))

Mul(x, y) ==
    LET g1 == Gcd(Abs(x[1]), Abs(y[2]))
        g2 == Gcd(Abs(y[1]), Abs(x[2]))
        a  == IF g1 = 0 THEN x[1] ELSE x[1] \div g1
        d  == IF g1 = 0 THEN y[2] ELSE y[2] \div g1
        c  == IF g2 = 0 THEN y[1] ELSE y[1] \div g2
        b  == IF g2 = 0 THEN x[2] ELSE x[2] \div g2
    IN  Q(a * c, b * d)

Div(x, y) == Mul(x, Q(y[2], y[1]))

Lt(x, y) ==
    IF isna(x) \/ isna(y) THEN FALSE
    ELSE IF x[2] = 0 /\ y[2] = 0 THEN x[1] < y[1]
    ELSE IF x[2] = 0 THEN x[1] < 0
    ELSE IF y[2] = 0 THEN y[1] > 0
    ELSE x[1] * y[2] < y[1] * x[2]

Gt(x, y) == Lt(y, x)
Le(x, y) == notna(x) /\ notna(y) /\ ~Lt(y, x)
Ge(x, y) == Le(y, x)

(* x / sqrt(v2), stored as its signed square *)
DivSqrt(x, v2) == Div(Mul(x, <<Abs(x[1]), x[2]>>), v2)

(* ------------------------------- Series -------------------------------- *)
(* a Series built pointwise, held as an explicit sequence *)
Series(f) == f \o <<>>

RECURSIVE SumSeq(_)
SumSeq(s) == IF s = <<>> THEN Zero ELSE Add(Head(s), SumSeq(Tail(s)))

Values(s) == SelectSeq(s, notna)

(* Series.mean(): NaN entries are skipped, the mean of nothing is NaN *)
mean(s) == LET v == Values(s) IN Div(SumSeq(v), Num(Len(v)))

RECURSIVE InsertSorted(_, _)
InsertSorted(x, s) ==
    IF s = <<>> THEN <<x>>
    ELSE IF Le(x, Head(s)) THEN <<x>> \o s
    ELSE <<Head(s)>> \o InsertSorted(x, Tail(s))

RECURSIVE sort_values(_)
sort_values(s) ==
    IF s = <<>> THEN <<>> ELSE InsertSorted(Head(s), sort_values(Tail(s)))

(* quantile without interpolation (interpolation="lower") *)
quantile_lower(s, q) ==
    LET v == sort_values(Values(s))
        n == Len(v)
    IN  IF n = 0 THEN NaN ELSE v[((q[1] * (n - 1)) \div q[2]) + 1]

(* Series.quantile(q), interpolation="linear": the value at the virtual    *)
(* index q * (n - 1) of the sorted non-NaN values                          *)
quantile(s, q) ==
    LET v == sort_values(Values(s))
        n == Len(v)
    IN  IF n = 0 THEN NaN
        ELSE LET pnum  == q[1] * (n - 1)
                 lo    == pnum \div q[2]
                 hi    == IF lo + 1 < n THEN lo + 1 ELSE n - 1
                 gamma == Q(pnum % q[2], q[2])
             IN  Add(v[lo + 1], Mul(gamma, Sub(v[hi + 1], v[lo + 1])))

(* Series.var(ddof=1): NaN unless at least two values are present *)
var(s) ==
    LET v == Values(s)
        n == Len(v)
        m == mean(v)
        sq == Series([i \in DOMAIN v |-> Mul(Sub(v[i], m), Sub(v[i], m))])
    IN  IF n - 1 <= 0 THEN NaN ELSE Div(SumSeq(sq), Num(n - 1))

(* a running sum in place of the running product *)
RECURSIVE cumprod_sum(_)
cumprod_sum(s) ==
    IF s = <<>> THEN <<>>
    ELSE LET p == cumprod_sum(SubSeq(s, 1, Len(s) - 1))
         IN  IF p = <<>> THEN <<s[1]>>
             ELSE Append(p, Add(p[Len(p)], s[Len(s)]))

(* Series.cumprod() *)
RECURSIVE cumprod(_)
cumprod(s) ==
    IF s = <<>> THEN <<>>
    ELSE LET p == cumprod(SubSeq(s, 1, Len(s) - 1))
         IN  IF p = <<>> THEN <<s[1]>>
             ELSE Append(p, Mul(p[Len(p)], s[Len(s)]))

(* Series.cummax() *)
RECURSIVE cummax(_)
cummax(s) ==
    IF s = <<>> THEN <<>>
    ELSE LET p == cummax(SubSeq(s, 1, Len(s) - 1))
             x == s[Len(s)]
         IN  IF p = <<>> THEN <<x>>
             ELSE Append(p, IF Gt(x, p[Len(p)]) THEN x ELSE p[Len(p)])

(* Series.min(): NaN entries are skipped, the minimum of nothing is NaN *)
RECURSIVE MinSeq(_)
MinSeq(v) ==
    IF Len(v) = 1 THEN v[1]
    ELSE LET m == MinSeq(Tail(v)) IN IF Lt(Head(v), m) THEN Head(v) ELSE m

min(s) == LET v == Values(s) IN IF v = <<>> THEN NaN ELSE MinSeq(v)

RECURSIVE SumInt(_)
SumInt(s) == IF s = <<>> THEN 0 ELSE Head(s) + SumInt(Tail(s))

(* ------------------------------ metrics.py ----------------------------- *)
(* scipy rankdata, method="average", doubled so that ranks stay integers *)
rankdata(v) ==
    Series([i \in DOMAIN v |->
        2 * Cardinality({j \in DOMAIN v : Lt(v[j], v[i])})
          + Cardinality({j \in DOMAIN v : v[j] = v[i]}) + 1])

(* scipy spearmanr(x, y)[0]: Pearson correlation of the ranks.  Doubled     *)
(* average ranks of n values always have mean n + 1.  NaN on constant input *)
spearmanr(x, y) ==
    LET n   == Len(x)
        rx  == rankdata(x)
        ry  == rankdata(y)
        dx  == Series([i \in 1..n |-> rx[i] - (n + 1)])
        dy  == Series([i \in 1..n |-> ry[i] - (n + 1)])
        cov == SumInt([i \in 1..n |-> dx[i] * dy[i]])
        vx  == SumInt([i \in 1..n |-> dx[i] * dx[i]])
        vy  == SumInt([i \in 1..n |-> dy[i] * dy[i]])
    IN  DivSqrt(Num(cov), Num(vx * vy))

(* pd.concat([a, b], axis=1) of two Series on a default index *)
concat(a, b) ==
    LET n == IF Len(a) > Len(b) THEN Len(a) ELSE Len(b)
    IN  Series([i \in 1..n |-> <<IF i <= Len(a) THEN a[i] ELSE NaN,
                                 IF i <= Len(b) THEN b[i] ELSE NaN>>])

NoNaN(p) == notna(p[1]) /\ notna(p[2])

min_pairs == 5

(* the threshold compared with <= *)
compute_ic_le(factor, fwd_returns) ==
    LET aligned == SelectSeq(concat(factor, fwd_returns), NoNaN)
    IN  IF Len(aligned) <= min_pairs THEN NaN
        ELSE spearmanr(Series([i \in DOMAIN aligned |-> aligned[i][1]]),
                       Series([i \in DOMAIN aligned |-> aligned[i][2]]))

compute_ic(factor, fwd_returns) ==
    LET aligned == SelectSeq(concat(factor, fwd_returns), NoNaN)
    IN  IF Len(aligned) < min_pairs THEN NaN
        ELSE spearmanr(Series([i \in DOMAIN aligned |-> aligned[i][1]]),
                       Series([i \in DOMAIN aligned |-> aligned[i][2]]))

nb_days == 252

(* the guard admitting sigma = 0 *)
sharpe_ratio_ge(returns) ==
    LET mu       == Mul(mean(returns), Num(nb_days))
        sigma_sq == Mul(var(returns), Num(nb_days))
    IN  IF Ge(sigma_sq, Zero) THEN DivSqrt(mu, sigma_sq) ELSE NaN

sharpe_ratio(returns) ==
    LET mu       == Mul(mean(returns), Num(nb_days))
        sigma_sq == Mul(var(returns), Num(nb_days))
    IN  IF Gt(sigma_sq, Zero) THEN DivSqrt(mu, sigma_sq) ELSE NaN

RECURSIVE MaxSeq(_)
MaxSeq(v) ==
    IF Len(v) = 1 THEN v[1]
    ELSE LET m == MaxSeq(Tail(v)) IN IF Gt(Head(v), m) THEN Head(v) ELSE m

(* the drawdown measured from the highest value of the whole series *)
max_drawdown_global(cum_returns) ==
    LET v == Values(cum_returns)
        top == IF v = <<>> THEN NaN ELSE MaxSeq(v)
        dd == Series([i \in DOMAIN cum_returns |->
                  Div(Sub(cum_returns[i], top), top)])
    IN  min(dd)

(* the drawdown measured against a running maximum that starts at 1 *)
max_drawdown_initial(cum_returns) ==
    LET roll_max == Tail(cummax(<<One>> \o cum_returns))
        dd == Series([i \in DOMAIN cum_returns |->
                  Div(Sub(cum_returns[i], roll_max[i]), roll_max[i])])
    IN  min(dd)

(* the largest raw gap below the running maximum *)
max_drawdown_gap(cum_returns) ==
    LET roll_max == cummax(cum_returns)
        gap == Values(Series([i \in DOMAIN cum_returns |->
                   Sub(roll_max[i], cum_returns[i])]))
    IN  IF gap = <<>> THEN NaN ELSE MaxSeq(gap)

max_drawdown(cum_returns) ==
    LET roll_max == cummax(cum_returns)
        dd == Series([i \in DOMAIN cum_returns |->
                  Div(Sub(cum_returns[i], roll_max[i]), roll_max[i])])
    IN  min(dd)

(* ------------------------------ DataFrame ------------------------------ *)
(* A frame is a sequence of rows [idx, date, factor, fwd_return]; idx is   *)
(* the row label.                                                          *)
Column(d, c) == Series([i \in DOMAIN d |-> d[i][c]])

dropna(d, subset) == SelectSeq(d, LAMBDA r : \A c \in subset : notna(r[c]))

RECURSIVE SortInts(_)
SortInts(S) ==
    IF S = {} THEN <<>>
    ELSE LET m == CHOOSE x \in S : \A y \in S : x <= y
         IN  <<m>> \o SortInts(S \ {m})

(* df.groupby("date"): the group keys, sorted ascending *)
GroupKeys(d) == SortInts({d[i].date : i \in DOMAIN d})
Group(d, k) == SelectSeq(d, LAMBDA r : r.date = k)

(* frame[mask]: the rows of the frame whose label is set in the mask *)
Where(frame, mask) ==
    SelectSeq(frame, LAMBDA r : r.idx \in DOMAIN mask /\ mask[r.idx])

(* ----------------------------- backtest.py ----------------------------- *)
max_day == 10
low == <<3, 10>>
high == <<7, 10>>

(* rows dropped on a missing factor only *)
DailyVal_factor(daily) == dropna(daily, {"factor"})

(* daily.dropna(subset=[factor_col, fwd_return_col]) *)
DailyVal(daily) == dropna(daily, {"factor", "fwd_return"})

RowAt(frame, l) == CHOOSE r \in {frame[i] : i \in DOMAIN frame} : r.idx = l
Labels(frame) == {frame[i].idx : i \in DOMAIN frame}

(* the long bucket taken strictly above the threshold *)
Longs_gt(daily, daily_val, q_high) ==
    Where(daily_val, [l \in Labels(daily) |-> Gt(RowAt(daily, l).factor, q_high)])

(* daily_val[daily[factor_col] >= q_high]: the mask is built on daily and  *)
(* aligned to daily_val by row label                                       *)
Longs(daily, daily_val, q_high) ==
    Where(daily_val, [l \in Labels(daily) |-> Ge(RowAt(daily, l).factor, q_high)])

(* the short bucket taken strictly below the threshold *)
Shorts_lt(daily, daily_val, q_low) ==
    Where(daily_val, [l \in Labels(daily) |-> Lt(RowAt(daily, l).factor, q_low)])

(* daily_val[daily[factor_col] <= q_low] *)
Shorts(daily, daily_val, q_low) ==
    Where(daily_val, [l \in Labels(daily) |-> Le(RowAt(daily, l).factor, q_low)])

DayReturn(longs, shorts) ==
    Sub(mean(Column(longs, "fwd_return")), mean(Column(shorts, "fwd_return")))

(* one iteration of the loop over df.groupby("date") *)
LoopBody(res, date, daily) ==
    LET daily_val == DailyVal(daily)
    IN  IF Len(daily_val) < max_day THEN res
        ELSE LET q_low  == quantile(Column(daily_val, "factor"), low)
                 q_high == quantile(Column(daily_val, "factor"), high)
                 longs  == Longs(daily, daily_val, q_high)
                 shorts == Shorts(daily, daily_val, q_low)
             IN  IF longs = <<>> \/ shorts = <<>> THEN res
                 ELSE Append(res, [date |-> date,
                                   strategy_return |-> DayReturn(longs, shorts)])

RECURSIVE InsertByDate(_, _)
InsertByDate(r, s) ==
    IF s = <<>> THEN <<r>>
    ELSE IF r.date < Head(s).date THEN <<r>> \o s
    ELSE <<Head(s)>> \o InsertByDate(r, Tail(s))

RECURSIVE InsertByDateDesc(_, _)
InsertByDateDesc(r, s) ==
    IF s = <<>> THEN <<r>>
    ELSE IF r.date > Head(s).date THEN <<r>> \o s
    ELSE <<Head(s)>> \o InsertByDateDesc(r, Tail(s))

(* the records left in the order the loop produced them *)
sort_index_none(s) == s

(* sorted with ascending=False *)
RECURSIVE sort_index_desc(_)
sort_index_desc(s) ==
    IF s = <<>> THEN <<>>
    ELSE InsertByDateDesc(s[Len(s)], sort_index_desc(SubSeq(s, 1, Len(s) - 1)))

(* strat.set_index("date").sort_index() *)
RECURSIVE sort_index(_)
sort_index(s) ==
    IF s = <<>> THEN <<>>
    ELSE InsertByDate(s[Len(s)], sort_index(SubSeq(s, 1, Len(s) - 1)))

(* strat["cum_return"] = (1 + strat["strategy_return"]).cumprod() *)
(* the returns compounded without the 1 + *)
CumReturn_raw(sr) == cumprod(sr)

CumReturn(sr) == cumprod(Series([i \in DOMAIN sr |-> Add(One, sr[i])]))

WithCumReturn(s) ==
    LET cum == CumReturn(Column(s, "strategy_return"))
    IN  [i \in DOMAIN s |-> [date |-> s[i].date,
                             strategy_return |-> s[i].strategy_return,
                             cum_return |-> cum[i]]]

(* the empty frame built without its cum_return column *)
EmptyColumns_bare == {"strategy_return"}

EmptyColumns == {"strategy_return", "cum_return"}

(* the correlation taken over the rows of the surviving dates only *)
FrameIC_surviving(d) ==
    LET kept == SelectSeq(d, LAMBDA r : Len(DailyVal(Group(d, r.date))) >= max_day)
    IN  compute_ic(Column(kept, "factor"), Column(kept, "fwd_return"))

(* compute_ic(df[factor_col], df[fwd_return_col]) *)
FrameIC(d) == compute_ic(Column(d, "factor"), Column(d, "fwd_return"))

NoCall == [fn |-> "none", a |-> <<>>, b |-> <<>>]

ProcessDate ==
    /\ pc = "loop"
    /\ todo # <<>>
    /\ results' = LoopBody(results, Head(todo), Group(df, Head(todo)))
    /\ todo' = Tail(todo)
    /\ UNCHANGED <<df, pc, strat, columns, sharpe, mdd, metrics, call, ret, heap, sentiment, out, raised, fs>>

BuildEmptyFrame ==
    /\ pc = "loop"
    /\ todo = <<>>
    /\ results = <<>>
    /\ strat' = <<>>
    /\ columns' = EmptyColumns
    /\ sharpe' = NaN
    /\ mdd' = NaN
    /\ pc' = "ic"
    /\ UNCHANGED <<df, todo, results, metrics, call, ret, heap, sentiment, out, raised, fs>>

BuildFrame ==
    /\ pc = "loop"
    /\ todo = <<>>
    /\ results # <<>>
    /\ strat' = WithCumReturn(sort_index(results))
    /\ columns' = {"strategy_return", "cum_return"}
    /\ sharpe' = sharpe_ratio(Column(strat', "strategy_return"))
    /\ mdd' = max_drawdown(Column(strat', "cum_return"))
    /\ pc' = "ic"
    /\ UNCHANGED <<df, todo, results, metrics, call, ret, heap, sentiment, out, raised, fs>>

Return ==
    /\ pc = "ic"
    /\ metrics' = [IC |-> FrameIC(df), Sharpe |-> sharpe, MaxDD |-> mdd]
    /\ pc' = "done"
    /\ UNCHANGED <<df, todo, results, strat, columns, sharpe, mdd, call, ret, heap, sentiment, out, raised, fs>>

(* ------------------------------- inputs -------------------------------- *)
(* A cross-section of n rows holds g[1] rows of factor 1, g[2] rows of     *)
(* factor 3 and the rest of factor 2, each level with the forward return   *)
(* of the profile p, followed by at most one row in which the factor or    *)
(* the forward return is missing.                                          *)
Rep(k, r) == [i \in 1..k |-> r]

RowOf(d, f, r) == [date |-> d, factor |-> f, fwd_return |-> r]

BadRows(d, kind) ==
    IF kind = "no_return" THEN <<RowOf(d, Num(3), NaN)>>
    ELSE IF kind = "no_factor" THEN <<RowOf(d, NaN, Num(1))>>
    ELSE <<>>

Variants ==
    { [bad |-> "none",      g |-> <<0, 0>>, p |-> <<0, 1, 0>>],
      [bad |-> "none",      g |-> <<3, 3>>, p |-> <<1, 0, 0>>],
      [bad |-> "no_return", g |-> <<3, 3>>, p |-> <<0, 0, 1>>],
      [bad |-> "no_factor", g |-> <<3, 3>>, p |-> <<0, 0, 1>>] }

Shapes == [n : max_day..MaxRows, v : Variants]

CrossSection(d, x) ==
    LET bad == BadRows(d, x.v.bad)
        g   == x.v.g
        p   == x.v.p
    IN  Rep(g[1], RowOf(d, Num(1), Num(p[1])))
          \o Rep(x.n - Len(bad) - g[1] - g[2], RowOf(d, Num(2), Num(p[2])))
          \o Rep(g[2], RowOf(d, Num(3), Num(p[3])))
          \o bad

(* the cross-sections of dates 1..d, one after the other *)
RECURSIVE Panel(_, _)
Panel(f, d) == IF d = 0 THEN <<>> ELSE Panel(f, d - 1) \o CrossSection(d, f[d])

Reverse(s) == [i \in DOMAIN s |-> s[Len(s) + 1 - i]]

(* rows get the default RangeIndex 0..n-1 *)
Indexed(rows) ==
    Series([i \in DOMAIN rows |-> [idx |-> i - 1, date |-> rows[i].date,
                                   factor |-> rows[i].factor,
                                   fwd_return |-> rows[i].fwd_return]])

Init ==
    /\ \E f \in [1..NDates -> Shapes], rev \in BOOLEAN :
          df = Indexed(IF rev THEN Reverse(Panel(f, NDates)) ELSE Panel(f, NDates))
    /\ pc = "loop"
    /\ todo = GroupKeys(df)
    /\ results = <<>>
    /\ strat = <<>>
    /\ columns = {}
    /\ sharpe = Unbound
    /\ mdd = Unbound
    /\ metrics = <<>>
    /\ call = NoCall
    /\ ret = Unbound
    /\ heap = <<>>
    /\ sentiment = 0
    /\ out = <<>>
    /\ raised = "none"
    /\ fs = <<>>

Next == ProcessDate \/ BuildEmptyFrame \/ BuildFrame \/ Return

Spec == Init /\ [][Next]_vars

(* ------------------- the statistics functions on their own ------------- *)
MaxLen == 6

(* position i of a pair of series: rising or falling together, or one side missing *)
PairChoices(i) ==
    [rise |-> <<Num(i), Num(i)>>, fall |-> <<Num(i), Num(-i)>>,
     nox  |-> <<NaN, Num(i)>>,    noy  |-> <<Num(i), NaN>>]

ReturnValues == { NaN, Num(-1), Zero, Num(1) }
CumValues == { Zero, One, Num(2), Q(1, 2) }

InitMetrics ==
    /\ \E k \in 0..MaxLen :
          \/ \E c \in [1..k -> {"rise", "fall", "nox", "noy"}] :
                call = [fn |-> "compute_ic",
                        a |-> Series([i \in 1..k |-> PairChoices(i)[c[i]][1]]),
                        b |-> Series([i \in 1..k |-> PairChoices(i)[c[i]][2]])]
          \/ \E s \in [1..k -> ReturnValues] :
                call = [fn |-> "sharpe_ratio", a |-> Series(s), b |-> <<>>]
          \/ \E s \in [1..k -> CumValues] :
                call = [fn |-> "max_drawdown", a |-> Series(s), b |-> <<>>]
    /\ ret = Unbound
    /\ df = <<>>
    /\ pc = "idle"
    /\ todo = <<>>
    /\ results = <<>>
    /\ strat = <<>>
    /\ columns = {}
    /\ sharpe = Unbound
    /\ mdd = Unbound
    /\ metrics = <<>>
    /\ heap = <<>>
    /\ sentiment = 0
    /\ out = <<>>
    /\ raised = "none"
    /\ fs = <<>>

CallComputeIC ==
    /\ call.fn = "compute_ic"
    /\ ret = Unbound
    /\ ret' = compute_ic(call.a, call.b)
    /\ UNCHANGED <<df, pc, todo, results, strat, columns, sharpe, mdd, metrics, call, heap, sentiment, out, raised, fs>>

CallSharpeRatio ==
    /\ call.fn = "sharpe_ratio"
    /\ ret = Unbound
    /\ ret' = sharpe_ratio(call.a)
    /\ UNCHANGED <<df, pc, todo, results, strat, columns, sharpe, mdd, metrics, call, heap, sentiment, out, raised, fs>>

CallMaxDrawdown ==
    /\ call.fn = "max_drawdown"
    /\ ret = Unbound
    /\ ret' = max_drawdown(call.a)
    /\ UNCHANGED <<df, pc, todo, results, strat, columns, sharpe, mdd, metrics, call, heap, sentiment, out, raised, fs>>

NextMetrics == CallComputeIC \/ CallSharpeRatio \/ CallMaxDrawdown

SpecMetrics == InitMetrics /\ [][NextMetrics]_vars

(* ----------------------------- factors.py ------------------------------ *)
(* A sentiment frame is a record [columns, rows]; a row is a record over   *)
(* "idx" (the row label) and the frame's columns, and a ticker is a number *)
(* standing for its place in the alphabet.  Frames are objects: heap is    *)
(* the sequence of the frames created so far and a reference is a position *)
(* in it.  SENT_STD3 holds the square of the rolling standard deviation    *)
(* and SENT_SHOCK the signed square of the z-score.                        *)
MaxDays == 4

KeyLess(r, s) == r.ticker < s.ticker \/ (r.ticker = s.ticker /\ r.date < s.date)

RECURSIVE InsertByKey(_, _)
InsertByKey(r, s) ==
    IF s = <<>> THEN <<r>>
    ELSE IF KeyLess(r, Head(s)) THEN <<r>> \o s
    ELSE <<Head(s)>> \o InsertByKey(r, Tail(s))

(* the rows left in the order they came in *)
sort_values_frame_none(rows) == rows

(* df.sort_values(["ticker", "date"]) *)
RECURSIVE sort_values_frame(_)
sort_values_frame(rows) ==
    IF rows = <<>> THEN <<>>
    ELSE InsertByKey(rows[Len(rows)], sort_values_frame(SubSeq(rows, 1, Len(rows) - 1)))

(* the frame sorted where it stands, with no copy taken *)
Prepare_inplace(h, ref) ==
    [heap |-> [h EXCEPT ![ref].rows = sort_values_frame(h[ref].rows)], df |-> ref]

(* df = sentiment.copy(); df = df.sort_values(...): a new object *)
Prepare(h, ref) ==
    [heap |-> Append(h, [columns |-> h[ref].columns,
                         rows |-> sort_values_frame(h[ref].rows)]),
     df |-> Len(h) + 1]

(* the rows of row i's ticker from the top of the frame down to row i *)
GroupUpTo_any(rows, i) == SubSeq(rows, 1, i)
GroupUpTo(rows, i) == SelectSeq(SubSeq(rows, 1, i), LAMBDA r : r.ticker = rows[i].ticker)

LastOf(s, k) == SubSeq(s, Len(s) - k + 1, Len(s))

(* groupby("ticker")[col].shift(1), indexed by row label *)
GroupShift(rows, col) ==
    [l \in Labels(rows) |->
        LET i == CHOOSE j \in DOMAIN rows : rows[j].idx = l
            g == GroupUpTo(rows, i)
        IN  IF Len(g) < 2 THEN NaN ELSE g[Len(g) - 1][col]]

(* the window with no minimum number of values *)
Window_relaxed(rows, col, i, window, min_periods) ==
    LET g == Column(GroupUpTo(rows, i), col)
    IN  Values(IF Len(g) <= window THEN g ELSE LastOf(g, window))

(* the window of a rolling(window, min_periods) ending at row i: its       *)
(* defined values, or <<>> when there are fewer than min_periods of them   *)
Window(rows, col, i, window, min_periods) ==
    LET g == Column(GroupUpTo(rows, i), col)
        w == Values(IF Len(g) <= window THEN g ELSE LastOf(g, window))
    IN  IF Len(w) < min_periods THEN <<>> ELSE w

(* groupby("ticker")[col].rolling(...).mean().reset_index(0, drop=True) *)
GroupRollingMean(rows, col, window, min_periods) ==
    [l \in Labels(rows) |->
        LET i == CHOOSE j \in DOMAIN rows : rows[j].idx = l
            w == Window(rows, col, i, window, min_periods)
        IN  IF w = <<>> THEN NaN ELSE mean(w)]

(* groupby("ticker")[col].rolling(...).std().reset_index(0, drop=True), squared *)
GroupRollingVar(rows, col, window, min_periods) ==
    [l \in Labels(rows) |->
        LET i == CHOOSE j \in DOMAIN rows : rows[j].idx = l
            w == Window(rows, col, i, window, min_periods)
        IN  IF w = <<>> THEN NaN ELSE var(w)]

(* the rows with the column name set to s, aligned by row label *)
Assign(rows, name, s) ==
    Series([i \in DOMAIN rows |->
        (name :> (IF rows[i].idx \in DOMAIN s THEN s[rows[i].idx] ELSE NaN)) @@ rows[i]])

(* df[name] = s: written into the object itself *)
SetItem(h, ref, name, s) ==
    [h EXCEPT ![ref] = [columns |-> @.columns \cup {name},
                        rows |-> Assign(@.rows, name, s)]]

(* a z-score that divides by the deviation plus a small constant *)
Shock_eps(x, m, v) ==
    IF v = Zero THEN Mul(Sub(x, m), Num(1000000)) ELSE DivSqrt(Sub(x, m), v)

(* (avg_sentiment - SENT_MEAN3) / SENT_STD3 *)
Shock(x, m, v) == DivSqrt(Sub(x, m), v)

ShockColumn(rows) ==
    [l \in Labels(rows) |->
        LET r == RowAt(rows, l) IN Shock(r.avg_sentiment, r.SENT_MEAN3, r.SENT_STD3)]

window3 == 3

Required_lag == {"SENT_L1"}

(* subset=["SENT_L1", "SENT_SHOCK"] *)
Required == {"SENT_L1", "SENT_SHOCK"}

(* an empty frame refused by the rolling step *)
Raises_empty(frame) ==
    IF ~({"ticker", "date"} \subseteq frame.columns) THEN "KeyError"
    ELSE IF "avg_sentiment" \notin frame.columns THEN "KeyError"
    ELSE IF frame.rows = <<>> THEN "ValueError"
    ELSE "none"

(* the exception compute_factors ends with on a frame: the sort needs the  *)
(* ticker and date columns, the group-by selection needs avg_sentiment     *)
Raises(frame) ==
    IF ~({"ticker", "date"} \subseteq frame.columns) THEN "KeyError"
    ELSE IF "avg_sentiment" \notin frame.columns THEN "KeyError"
    ELSE "none"

(* lines 12, 15, 16 and 17: one column each, written into object d *)
WithLag(h, d) ==
    SetItem(h, d, "SENT_L1", GroupShift(h[d].rows, "avg_sentiment"))
WithMean3(h, d) ==
    SetItem(h, d, "SENT_MEAN3", GroupRollingMean(h[d].rows, "avg_sentiment", window3, window3))
WithStd3(h, d) ==
    SetItem(h, d, "SENT_STD3", GroupRollingVar(h[d].rows, "avg_sentiment", window3, window3))
WithShock(h, d) ==
    SetItem(h, d, "SENT_SHOCK", ShockColumn(h[d].rows))

(* line 19: the rows of object d with both factors defined, a new object *)
Dropped(h, d) ==
    [heap |-> Append(h, [columns |-> h[d].columns, rows |-> dropna(h[d].rows, Required)]),
     ret |-> Len(h) + 1,
     raised |-> "none"]

Columns(p) == Dropped(WithShock(WithStd3(WithMean3(WithLag(p.heap, p.df), p.df), p.df), p.df), p.df)

(* compute_factors(sentiment): the heap after the call and the reference   *)
(* returned (0 when the call raised)                                       *)
compute_factors(h, ref) ==
    IF Raises(h[ref]) # "none" THEN [heap |-> h, ret |-> 0, raised |-> Raises(h[ref])]
    ELSE Columns(Prepare(h, ref))

Outcome(r) ==
    /\ heap' = r.heap
    /\ raised' = r.raised
    /\ out' = IF r.raised = "none" THEN Append(out, r.ret) ELSE out

CallComputeFactors ==
    /\ call.fn = "compute_factors"
    /\ raised = "none"
    /\ Len(out) < 2
    /\ Outcome(compute_factors(heap, sentiment))
    /\ UNCHANGED <<df, pc, todo, results, strat, columns, sharpe, mdd, metrics, call, ret, sentiment, fs>>

(* inputs: ticker 1 has, on each day, no row, a row without a sentiment or *)
(* a row with sentiment 0 or 1; ticker 2 has no rows, alternating          *)
(* sentiments or a constant one; rows come by date or in reverse           *)
SentimentRow(d, k, v) == [date |-> d, ticker |-> k, avg_sentiment |-> v]

FirstTicker(a, d) ==
    IF a[d] = "absent" THEN <<>>
    ELSE <<SentimentRow(d, 1, IF a[d] = "nan" THEN NaN ELSE IF a[d] = "lo" THEN Zero ELSE One)>>

SecondTicker(b, d) ==
    IF b = "none" THEN <<>>
    ELSE <<SentimentRow(d, 2, IF b = "flat" THEN Num(3) ELSE Num(2 + (d % 2)))>>

RECURSIVE SentimentPanel(_, _, _)
SentimentPanel(a, b, d) ==
    IF d = 0 THEN <<>>
    ELSE SentimentPanel(a, b, d - 1) \o FirstTicker(a, d) \o SecondTicker(b, d)

Schema == {"date", "ticker", "avg_sentiment"}

(* the rows labelled 0..n-1 and cut down to the columns cols *)
IndexedFrame(rows, cols) ==
    [columns |-> cols,
     rows |-> Series([i \in DOMAIN rows |->
                 [c \in cols \cup {"idx"} |-> IF c = "idx" THEN i - 1 ELSE rows[i][c]]])]

InitFactors ==
    /\ \E a \in [1..MaxDays -> {"absent", "nan", "lo", "hi"}],
          b \in {"none", "alt", "flat"}, rev \in BOOLEAN,
          cols \in {Schema, {"date", "ticker"}, {"date", "avg_sentiment"}} :
          /\ cols # Schema => (b = "none" /\ ~rev /\ \A d \in 2..MaxDays : a[d] = "absent")
          /\ LET rows == SentimentPanel(a, b, MaxDays)
             IN  heap = <<IndexedFrame(IF rev THEN Reverse(rows) ELSE rows, cols)>>
    /\ sentiment = 1
    /\ out = <<>>
    /\ raised = "none"
    /\ call = [fn |-> "compute_factors", a |-> heap[1], b |-> <<>>]
    /\ ret = Unbound
    /\ fs = <<>>
    /\ df = <<>>
    /\ pc = "idle"
    /\ todo = <<>>
    /\ results = <<>>
    /\ strat = <<>>
    /\ columns = {}
    /\ sharpe = Unbound
    /\ mdd = Unbound
    /\ metrics = <<>>

NextFactors == CallComputeFactors

SpecFactors == InitFactors /\ [][NextFactors]_vars

(* --------------------- the loop in any order of dates ------------------ *)
(* The iterations of the loop over df.groupby("date") share nothing but    *)
(* the list they append to; here they run in any order.                    *)
Without(s, i) == SubSeq(s, 1, i - 1) \o SubSeq(s, i + 1, Len(s))

ProcessAnyDate ==
    /\ pc = "loop"
    /\ \E i \in DOMAIN todo :
          /\ results' = LoopBody(results, todo[i], Group(df, todo[i]))
          /\ todo' = Without(todo, i)
    /\ UNCHANGED <<df, pc, strat, columns, sharpe, mdd, metrics, call, ret, heap, sentiment, out, raised, fs>>

NextAnyOrder == ProcessAnyDate \/ BuildEmptyFrame \/ BuildFrame \/ Return

(* inputs: the panels of Init in which every row has a factor, rows in     *)
(* date order                                                              *)
InitAnyOrder ==
    /\ \E f \in [1..NDates -> { x \in Shapes : x.v.bad # "no_factor" }] :
          df = Indexed(Panel(f, NDates))
    /\ pc = "loop"
    /\ todo = GroupKeys(df)
    /\ results = <<>>
    /\ strat = <<>>
    /\ columns = {}
    /\ sharpe = Unbound
    /\ mdd = Unbound
    /\ metrics = <<>>
    /\ call = NoCall
    /\ ret = Unbound
    /\ heap = <<>>
    /\ sentiment = 0
    /\ out = <<>>
    /\ raised = "none"
    /\ fs = <<>>

SpecAnyOrder == InitAnyOrder /\ [][NextAnyOrder]_vars

(* ------------------- requests for a factor that is absent -------------- *)
(* run_longshort as a function of a frame [columns, rows] and the names of *)
(* its factor and forward-return columns, and compute_factor of            *)
(* scripts/run_backtest.py; a call ends with a value in ret or with the    *)
(* name of its exception in raised.                                        *)
RECURSIVE Loop(_, _, _)
Loop(res, keys, d) ==
    IF keys = <<>> THEN res
    ELSE Loop(LoopBody(res, Head(keys), Group(d, Head(keys))), Tail(keys), d)

(* the rows with the two named columns read as factor and fwd_return *)
Selected(rows, factor_col, fwd_return_col) ==
    Series([i \in DOMAIN rows |->
        [idx |-> rows[i].idx, date |-> rows[i].date,
         factor |-> rows[i][factor_col], fwd_return |-> rows[i][fwd_return_col]]])

(* the columns looked up inside the loop only *)
KeyErrorLine_loop(frame, factor_col, fwd_return_col) ==
    IF "date" \notin frame.columns THEN 36
    ELSE IF frame.rows # <<>> /\ ~({factor_col, fwd_return_col} \subseteq frame.columns) THEN 38
    ELSE 0

(* the line of run_longshort at which a column look-up fails, 0 if none:   *)
(* groupby("date"), dropna(subset=...) in the first iteration, or          *)
(* df[factor_col] in the call of compute_ic                                *)
KeyErrorLine(frame, factor_col, fwd_return_col) ==
    IF "date" \notin frame.columns THEN 36
    ELSE IF frame.rows # <<>> /\ ~({factor_col, fwd_return_col} \subseteq frame.columns) THEN 38
    ELSE IF ~({factor_col, fwd_return_col} \subseteq frame.columns) THEN 69
    ELSE 0

(* lines 55-65: the frame of the records, empty or sorted and compounded *)
StratOf(res) == IF res = <<>> THEN <<>> ELSE WithCumReturn(sort_index(res))

(* lines 57-71: the frame with its metrics *)
Measured(d, st) ==
    [daily |-> st,
     metrics |-> [IC |-> FrameIC(d),
                  Sharpe |-> IF st = <<>> THEN NaN
                             ELSE sharpe_ratio(Column(st, "strategy_return")),
                  MaxDD |-> IF st = <<>> THEN NaN
                            ELSE max_drawdown(Column(st, "cum_return"))]]

RunOn(d) == Measured(d, StratOf(Loop(<<>>, GroupKeys(d), d)))

run_longshort(frame, factor_col, fwd_return_col) ==
    IF KeyErrorLine(frame, factor_col, fwd_return_col) # 0
    THEN [raised |-> "KeyError", ret |-> Unbound]
    ELSE [raised |-> "none",
          ret |-> RunOn(IF frame.rows = <<>> THEN <<>>
                        ELSE Selected(frame.rows, factor_col, fwd_return_col))]

shock_window == 5

(* compute_factor(sentiment, name, shock_window) *)
compute_factor(frame, name, window) ==
    IF ~({"ticker", "date"} \subseteq frame.columns) THEN [raised |-> "KeyError", ret |-> Unbound]
    ELSE IF name \notin {"SENT_L1", "SENT_SHOCK"} THEN [raised |-> "ValueError", ret |-> Unbound]
    ELSE IF "sentiment" \notin frame.columns THEN [raised |-> "KeyError", ret |-> Unbound]
    ELSE LET d == sort_values_frame(frame.rows)
             roll == GroupRollingMean(d, "sentiment", window, 1)
             factor == IF name = "SENT_L1" THEN GroupShift(d, "sentiment")
                       ELSE [l \in Labels(d) |-> Sub(RowAt(d, l).sentiment, roll[l])]
         IN  [raised |-> "none",
              ret |-> [columns |-> frame.columns \cup {"factor"},
                       rows |-> dropna(Assign(d, "factor", factor), {"factor"})]]

CallRunLongshort ==
    /\ call.fn = "run_longshort"
    /\ pc = "call"
    /\ LET r == run_longshort(call.a, call.b, "fwd_return")
       IN  raised' = r.raised /\ ret' = r.ret
    /\ pc' = "done"
    /\ UNCHANGED <<df, todo, results, strat, columns, sharpe, mdd, metrics, call, heap, sentiment, out, fs>>

CallComputeFactor ==
    /\ call.fn = "compute_factor"
    /\ pc = "call"
    /\ LET r == compute_factor(call.a, call.b, shock_window)
       IN  raised' = r.raised /\ ret' = r.ret
    /\ pc' = "done"
    /\ UNCHANGED <<df, todo, results, strat, columns, sharpe, mdd, metrics, call, heap, sentiment, out, fs>>

(* inputs: a cross-section of the backtest, or up to two rows, whose       *)
(* factor column is called fname, with or without a date column; a         *)
(* sentiment panel with or without its ticker column                       *)
ShortPanels == { Rep(k, RowOf(1, Num(1), Num(1))) : k \in 0..2 }

BacktestFrame(rows, fname, cols) ==
    [columns |-> cols,
     rows |-> Series([i \in DOMAIN rows |->
                 [c \in cols \cup {"idx"} |->
                     IF c = "idx" THEN i - 1
                     ELSE IF c = fname THEN rows[i].factor
                     ELSE rows[i][c]]])]

SentimentFrame(rows, cols) ==
    [columns |-> cols,
     rows |-> Series([i \in DOMAIN rows |->
                 [c \in cols \cup {"idx"} |->
                     IF c = "idx" THEN i - 1
                     ELSE IF c = "sentiment" THEN rows[i].avg_sentiment
                     ELSE rows[i][c]]])]

FactorNames == {"factor", "SENT_L1", "SENT_SHOCK"}

InitRaise ==
    /\ \/ \E rows \in ShortPanels \cup { CrossSection(1, x) : x \in Shapes },
             fname \in {"factor", "SENT_L1"}, dated \in BOOLEAN, asked \in FactorNames :
             call = [fn |-> "run_longshort",
                     a |-> BacktestFrame(rows, fname,
                              {fname, "fwd_return"} \cup (IF dated THEN {"date"} ELSE {})),
                     b |-> asked]
       \/ \E a \in [1..MaxDays -> {"nan", "lo", "hi"}], b \in {"none", "alt"},
             tick \in BOOLEAN, name \in FactorNames :
             call = [fn |-> "compute_factor",
                     a |-> SentimentFrame(SentimentPanel(a, b, MaxDays),
                              {"date", "sentiment"} \cup (IF tick THEN {"ticker"} ELSE {})),
                     b |-> name]
    /\ pc = "call"
    /\ ret = Unbound
    /\ raised = "none"
    /\ heap = <<>>
    /\ sentiment = 0
    /\ out = <<>>
    /\ fs = <<>>
    /\ df = <<>>
    /\ todo = <<>>
    /\ results = <<>>
    /\ strat = <<>>
    /\ columns = {}
    /\ sharpe = Unbound
    /\ mdd = Unbound
    /\ metrics = <<>>

NextRaise == CallRunLongshort \/ CallComputeFactor

SpecRaise == InitRaise /\ [][NextRaise]_vars

(* ----------------------------- public_api.py --------------------------- *)
(* last_metrics.  fs maps the paths that exist to a directory or to a file *)
(* with its text, a sequence of JSON tokens.  A JSON value is a record     *)
(* [t, num, str, obj] of which the field named by t is the one in use.     *)
MaxTokens == 5

Tokens == {"{", "}", ":", "\"IC\"", "null", "0.5"}

NoMembers == [k \in {} |-> 0]
None == [t |-> "null", num |-> NaN, str |-> "", obj |-> NoMembers]
Number(x) == [t |-> "num", num |-> x, str |-> "", obj |-> NoMembers]
String(s) == [t |-> "str", num |-> NaN, str |-> s, obj |-> NoMembers]
Object(members) == [t |-> "obj", num |-> NaN, str |-> "", obj |-> members]

Failed == [ok |-> FALSE, value |-> None, rest |-> <<>>]
Parsed(v, rest) == [ok |-> TRUE, value |-> v, rest |-> rest]

RECURSIVE ParseValue(_)
RECURSIVE ParseMembers(_, _, _)

(* one JSON value at the head of the text t *)
ParseValue(t) ==
    IF t = <<>> THEN Failed
    ELSE IF Head(t) = "null" THEN Parsed(None, Tail(t))
    ELSE IF Head(t) = "0.5" THEN Parsed(Number(Q(1, 2)), Tail(t))
    ELSE IF Head(t) = "\"IC\"" THEN Parsed(String("IC"), Tail(t))
    ELSE IF Head(t) = "{" THEN ParseMembers(Tail(t), NoMembers, TRUE)
    ELSE Failed

(* the members of an object after its opening brace; a repeated key keeps  *)
(* its last value                                                          *)
ParseMembers(t, acc, first) ==
    IF t = <<>> THEN Failed
    ELSE IF first /\ Head(t) = "}" THEN Parsed(Object(acc), Tail(t))
    ELSE IF Len(t) >= 2 /\ Head(t) = "\"IC\"" /\ t[2] = ":"
    THEN LET v == ParseValue(SubSeq(t, 3, Len(t)))
             members == ("IC" :> v.value) @@ acc
         IN  IF ~v.ok \/ v.rest = <<>> THEN Failed
             ELSE IF Head(v.rest) = "}" THEN Parsed(Object(members), Tail(v.rest))
             ELSE IF Head(v.rest) = "," THEN ParseMembers(Tail(v.rest), members, FALSE)
             ELSE Failed
    ELSE Failed

(* json.load(f): the value, or JSONDecodeError *)
json_load(text) ==
    LET r == ParseValue(text)
    IN  IF r.ok /\ r.rest = <<>> THEN [raised |-> "none", value |-> r.value]
        ELSE [raised |-> "JSONDecodeError", value |-> None]

(* open(metrics_path) followed by json.load *)
ReadJson(files, path) ==
    IF files[path].kind = "dir" THEN [raised |-> "IsADirectoryError", value |-> None]
    ELSE json_load(files[path].text)

(* a handler for parse errors only *)
Handled_decode(e) == e = "JSONDecodeError"

(* except Exception: pass *)
Handled(e) == TRUE

DefaultMetrics ==
    Object([k \in {"IC", "Sharpe", "MaxDD", "Turnover"} |-> None])

last_metrics(files, metrics_path, curve_path) ==
    LET r == IF metrics_path \in DOMAIN files THEN ReadJson(files, metrics_path)
             ELSE [raised |-> "none", value |-> DefaultMetrics]
    IN  IF r.raised = "none"
        THEN [raised |-> "none",
              ret |-> [metrics |-> r.value, equity_curve_path |-> curve_path]]
        ELSE IF Handled(r.raised)
        THEN [raised |-> "none",
              ret |-> [metrics |-> DefaultMetrics, equity_curve_path |-> curve_path]]
        ELSE [raised |-> r.raised, ret |-> Unbound]

CallLastMetrics ==
    /\ call.fn = "last_metrics"
    /\ pc = "call"
    /\ LET r == last_metrics(fs, call.a, call.b)
       IN  raised' = r.raised /\ ret' = r.ret
    /\ pc' = "done"
    /\ UNCHANGED <<df, todo, results, strat, columns, sharpe, mdd, metrics, call, heap, sentiment, out, fs>>

MetricsPath == "reports/metrics.json"
CurvePaths == {"reports/equity_curve.png", "equity_curve.png"}

InitFiles ==
    /\ \/ fs = NoMembers
       \/ fs = (MetricsPath :> [kind |-> "dir", text |-> <<>>])
       \/ \E k \in 0..MaxTokens : \E text \in [1..k -> Tokens] :
             fs = (MetricsPath :> [kind |-> "file", text |-> Series(text)])
    /\ \E curve_path \in CurvePaths :
          call = [fn |-> "last_metrics", a |-> MetricsPath, b |-> curve_path]
    /\ pc = "call"
    /\ ret = Unbound
    /\ raised = "none"
    /\ heap = <<>>
    /\ sentiment = 0
    /\ out = <<>>
    /\ df = <<>>
    /\ todo = <<>>
    /\ results = <<>>
    /\ strat = <<>>
    /\ columns = {}
    /\ sharpe = Unbound
    /\ mdd = Unbound
    /\ metrics = <<>>

NextFiles == CallLastMetrics

SpecFiles == InitFiles /\ [][NextFiles]_vars

(* ------------------------ run_backtest_from_panel ---------------------- *)
(* A price table is [names, dates, close]: the names of its row and column *)
(* index, its dates in increasing order and, per ticker, the column of     *)
(* closes, one per date.                                                   *)
MaxPriceRows == 5

(* prices.ffill(): a missing close takes the last close before it *)
RECURSIVE ffill(_)
ffill(s) ==
    IF Len(s) <= 1 THEN s
    ELSE LET f == ffill(SubSeq(s, 1, Len(s) - 1))
         IN  Append(f, IF isna(s[Len(s)]) THEN f[Len(f)] ELSE s[Len(s)])

(* the change against the row before, whatever the period *)
pct_change_one(s, periods) ==
    Series([i \in DOMAIN s |-> IF i <= 1 THEN NaN ELSE Sub(Div(s[i], s[i - 1]), One)])

(* pct_change(periods=periods) *)
pct_change(s, periods) ==
    Series([i \in DOMAIN s |->
        IF i <= periods THEN NaN ELSE Sub(Div(s[i], s[i - periods]), One)])

(* shift(-periods): row i takes the value of row i + periods *)
shift_back(s, periods) ==
    Series([i \in DOMAIN s |-> IF i + periods <= Len(s) THEN s[i + periods] ELSE NaN])

(* rets: one column of forward returns per ticker that dropna(how="all",   *)
(* axis=1) keeps, those whose column has a close                           *)
Rets(prices, horizon) ==
    [k \in { t \in DOMAIN prices.close :
                \E i \in DOMAIN prices.close[t] : notna(prices.close[t][i]) } |->
        shift_back(pct_change(ffill(prices.close[k]), horizon), horizon)]

(* rets.stack().rename("fwd_return"): one row per date and ticker, in date *)
(* then ticker order, the undefined returns left out                       *)
RECURSIVE Stacked(_, _, _)
Stacked(dates, rets, i) ==
    IF i = 0 THEN <<>>
    ELSE Stacked(dates, rets, i - 1) \o
         SelectSeq(Series([j \in DOMAIN SortInts(DOMAIN rets) |->
                       [date |-> dates[i], ticker |-> SortInts(DOMAIN rets)[j],
                        fwd_return |-> rets[SortInts(DOMAIN rets)[j]][i]]]),
                   LAMBDA r : notna(r.fwd_return))

RECURSIVE InsertByDateKey(_, _)
InsertByDateKey(r, s) ==
    IF s = <<>> THEN <<r>>
    ELSE IF r.date < Head(s).date \/ (r.date = Head(s).date /\ r.ticker < Head(s).ticker)
         THEN <<r>> \o s
    ELSE <<Head(s)>> \o InsertByDateKey(r, Tail(s))

(* set_index(["date", "ticker"]).sort_index() *)
RECURSIVE sort_by_date_ticker(_)
sort_by_date_ticker(rows) ==
    IF rows = <<>> THEN <<>>
    ELSE InsertByDateKey(rows[Len(rows)], sort_by_date_ticker(SubSeq(rows, 1, Len(rows) - 1)))

(* fac.join(..., how="inner").reset_index(): the factor rows that have a   *)
(* forward return, each with it, relabelled 0..n-1                         *)
RECURSIVE Joined(_, _)
Joined(fac, stacked) ==
    IF fac = <<>> THEN <<>>
    ELSE LET r == fac[Len(fac)]
             m == SelectSeq(stacked, LAMBDA s : s.date = r.date /\ s.ticker = r.ticker)
         IN  Joined(SubSeq(fac, 1, Len(fac) - 1), stacked) \o
             Series([j \in DOMAIN m |-> ("fwd_return" :> m[j].fwd_return) @@ r])

(* json.dump(metrics, f): the text written *)
FloatText(x) == IF isna(x) THEN "NaN" ELSE <<"float", x[1], x[2]>>

(* lines 59-65: the figure and the metrics saved under reports/ *)
Saved(files, m) ==
    [p \in DOMAIN files \cup {"reports/equity_curve.png", "reports/metrics.json"} |->
        IF p = "reports/metrics.json"
        THEN [kind |-> "file",
              text |-> <<"{", "\"IC\"", ":", FloatText(m.IC), ",",
                         "\"Sharpe\"", ":", FloatText(m.Sharpe), ",",
                         "\"MaxDD\"", ":", FloatText(m.MaxDD), "}">>]
        ELSE IF p = "reports/equity_curve.png" THEN [kind |-> "file", text |-> <<"png">>]
        ELSE files[p]]

(* lines 55-56 on the factor frame fac: the joined rows relabelled 0..n-1 *)
JoinedFrame(fac, prices, horizon) ==
    LET rows == Joined(sort_by_date_ticker(fac),
                       Stacked(prices.dates, Rets(prices, horizon), Len(prices.dates)))
    IN  Series([i \in DOMAIN rows |-> ("idx" :> (i - 1)) @@ rows[i]])

Factored(r, prices, factor, horizon) ==
    /\ heap' = r.heap
    /\ IF r.raised # "none"
       THEN raised' = r.raised /\ UNCHANGED <<df, metrics, fs, ret>>
       ELSE IF prices.names \cap {"date", "ticker"} = {}
       THEN raised' = "ValueError" /\ UNCHANGED <<df, metrics, fs, ret>>
       ELSE /\ df' = JoinedFrame(r.heap[r.ret].rows, prices, horizon)
            /\ metrics' = RunOn(IF df' = <<>> THEN <<>>
                                ELSE Selected(df', factor, "fwd_return")).metrics
            /\ fs' = Saved(fs, metrics')
            /\ ret' = [metrics |-> metrics', equity_curve_path |-> "reports/equity_curve.png"]
            /\ raised' = "none"

(* run_backtest_from_panel(panel_path, factor, horizon); call.a is the     *)
(* price table that load_prices returns                                    *)
CallRunBacktestFromPanel ==
    /\ call.fn = "run_backtest_from_panel"
    /\ pc = "call"
    /\ Factored(compute_factors(heap, sentiment), call.a, call.b.factor, call.b.horizon)
    /\ pc' = "done"
    /\ UNCHANGED <<todo, results, strat, columns, sharpe, mdd, call, sentiment, out>>

(* inputs: a panel of two tickers with alternating sentiments over the     *)
(* dates 1..MaxPriceRows; closes of ticker 1 missing, 1 or 2 on each date, *)
(* closes of ticker 2 rising or all missing; the price table with or       *)
(* without a row for date 4, its index named as the panel's or as the      *)
(* download's                                                              *)
PriceTable(c, second, skip, names) ==
    LET dates == SelectSeq([d \in 1..MaxPriceRows |-> d], LAMBDA d : d # skip)
    IN  [names |-> names,
         dates |-> dates,
         close |-> [k \in {1, 2} |->
                      Series([i \in DOMAIN dates |->
                          IF k = 1 THEN c[dates[i]]
                          ELSE IF second = "rising" THEN Num(dates[i] + 1)
                          ELSE NaN])]]

InitPanel ==
    /\ \E c \in [1..MaxPriceRows -> {NaN, One, Num(2)}], second \in {"rising", "empty"},
          skip \in {0, 4}, names \in {{"date", "ticker"}, {"Date", "Ticker"}},
          horizon \in 1..3 :
          call = [fn |-> "run_backtest_from_panel",
                  a |-> PriceTable(c, second, skip, names),
                  b |-> [factor |-> "SENT_L1", horizon |-> horizon]]
    /\ heap = <<IndexedFrame(SentimentPanel([d \in 1..MaxPriceRows |->
                                 IF d % 2 = 1 THEN "lo" ELSE "hi"], "alt", MaxPriceRows),
                             Schema)>>
    /\ sentiment = 1
    /\ pc = "call"
    /\ ret = Unbound
    /\ raised = "none"
    /\ out = <<>>
    /\ fs = NoMembers
    /\ df = <<>>
    /\ todo = <<>>
    /\ results = <<>>
    /\ strat = <<>>
    /\ columns = {}
    /\ sharpe = Unbound
    /\ mdd = Unbound
    /\ metrics = <<>>

SpecPanel == InitPanel /\ [][CallRunBacktestFromPanel]_vars

(* -------------------------- rank_and_portfolio ------------------------- *)
MaxNames == 5

(* rank(pct=True): the average rank of a value among the valid values of   *)
(* its date, over their number; undefined for an undefined value           *)
rank_pct(s) ==
    Series([i \in DOMAIN s |->
        IF isna(s[i]) THEN NaN
        ELSE Q(2 * Cardinality({j \in DOMAIN s : Lt(s[j], s[i])})
                 + Cardinality({j \in DOMAIN s : s[j] = s[i]}) + 1,
               2 * Len(Values(s)))])

AbsSum(w) == SumSeq(Series([i \in DOMAIN w |-> <<Abs(w[i][1]), w[i][2]>>]))

(* lines 88-90: 0, then 1 on the top ranks, then -1 on the bottom ranks *)
RawWeights(q, long_p, short_p) ==
    Series([i \in DOMAIN q |->
        IF Le(q[i], short_p) THEN Neg(One)
        ELSE IF Ge(q[i], Sub(One, long_p)) THEN One
        ELSE Zero])

(* lines 91-92: every weight over the sum of the absolute weights *)
Normalised(w) ==
    IF Gt(AbsSum(w), Zero) THEN Series([i \in DOMAIN w |-> Div(w[i], AbsSum(w))]) ELSE w

(* assign_bucket(x) on the rows x of one date *)
assign_bucket(x, long_p, short_p) ==
    Assign(x, "weight", LET w == Normalised(RawWeights(rank_pct(Column(x, "factor")),
                                                       long_p, short_p))
                        IN  [l \in Labels(x) |-> w[CHOOSE i \in DOMAIN x : x[i].idx = l]])

(* groupby("date", group_keys=False).apply(assign_bucket) *)
RECURSIVE ApplyByDate(_, _, _, _)
ApplyByDate(frame, keys, long_p, short_p) ==
    IF keys = <<>> THEN <<>>
    ELSE assign_bucket(Group(frame, Head(keys)), long_p, short_p)
         \o ApplyByDate(frame, Tail(keys), long_p, short_p)

rank_and_portfolio(factor_panel, long_p, short_p) ==
    ApplyByDate(factor_panel, GroupKeys(factor_panel), long_p, short_p)

CallRankAndPortfolio ==
    /\ call.fn = "rank_and_portfolio"
    /\ pc = "call"
    /\ ret' = rank_and_portfolio(df, call.a, call.b)
    /\ pc' = "done"
    /\ UNCHANGED <<df, todo, results, strat, columns, sharpe, mdd, metrics, call,
                   heap, sentiment, out, raised, fs>>

(* inputs: up to MaxNames rows in date order, all on date 1 or the last on *)
(* date 2, each factor missing or one of four values                       *)
InitRank ==
    /\ \E n \in 1..MaxNames, split \in BOOLEAN :
         \E v \in [1..n -> {NaN, One, Num(2), Num(3), Num(4)}] :
            df = Series([i \in 1..n |->
                     [idx |-> i - 1, date |-> IF split /\ i = n THEN 2 ELSE 1,
                      ticker |-> i, factor |-> v[i]]])
    /\ call = [fn |-> "rank_and_portfolio", a |-> Q(1, 5), b |-> Q(1, 5)]
    /\ pc = "call"
    /\ ret = Unbound
    /\ raised = "none"
    /\ heap = <<>>
    /\ sentiment = 0
    /\ out = <<>>
    /\ fs = <<>>
    /\ todo = <<>>
    /\ results = <<>>
    /\ strat = <<>>
    /\ columns = {}
    /\ sharpe = Unbound
    /\ mdd = Unbound
    /\ metrics = <<>>

SpecRank == InitRank /\ [][CallRankAndPortfolio]_vars

(* --------------------------- forward_returns --------------------------- *)
(* prices is a frame of rows [idx, date, ticker, close]. pct_change pads a *)
(* missing close with the last one of its group where the library's        *)
(* default fill is "pad", and leaves it missing where there is none.       *)
MaxQuotes == 4

(* the change against the row before, whatever its ticker *)
PctChange_ungrouped(rows, fill) ==
    pct_change(IF fill = "pad" THEN ffill(Column(rows, "close")) ELSE Column(rows, "close"), 1)

(* groupby("ticker")["close"].pct_change(), in the order of rows *)
GroupPctChange(rows, fill) ==
    Series([i \in DOMAIN rows |->
        LET g == Column(GroupUpTo(rows, i), "close")
            c == pct_change(IF fill = "pad" THEN ffill(g) ELSE g, 1)
        IN  c[Len(c)]])

(* lines 46-47: the frame sorted by ticker and date, with the grouped      *)
(* change shifted up by one row as column fwd_ret_1d                       *)
forward_returns(prices, fill) ==
    LET sorted == sort_values_frame(prices)
        s == shift_back(GroupPctChange(sorted, fill), 1)
    IN  Assign(sorted, "fwd_ret_1d",
               [l \in Labels(sorted) |-> s[CHOOSE i \in DOMAIN sorted : sorted[i].idx = l]])

CallForwardReturns ==
    /\ call.fn = "forward_returns"
    /\ pc = "call"
    /\ ret' = forward_returns(call.a, call.b)
    /\ pc' = "done"
    /\ UNCHANGED <<df, todo, results, strat, columns, sharpe, mdd, metrics, call,
                   heap, sentiment, out, raised, fs>>

(* inputs, as load_prices leaves them: n1 dates of ticker 1 with closes    *)
(* missing, 1 or 2 and n2 dates of ticker 2 with rising closes, labelled   *)
(* ticker by ticker and then sorted by date and ticker                     *)
Melted(c, n1, n2) ==
    Series([i \in 1..(n1 + n2) |->
        IF i <= n1 THEN [idx |-> i - 1, date |-> i, ticker |-> 1, close |-> c[i]]
        ELSE [idx |-> i - 1, date |-> i - n1, ticker |-> 2, close |-> Num(i - n1 + 2)]])

InitForward ==
    /\ \E n1 \in 1..MaxQuotes, n2 \in 0..MaxQuotes, fill \in {"pad", "none"} :
         \E c \in [1..n1 -> {NaN, One, Num(2)}] :
            call = [fn |-> "forward_returns",
                    a |-> sort_by_date_ticker(Melted(c, n1, n2)),
                    b |-> fill]
    /\ pc = "call"
    /\ ret = Unbound
    /\ raised = "none"
    /\ heap = <<>>
    /\ sentiment = 0
    /\ out = <<>>
    /\ fs = <<>>
    /\ df = <<>>
    /\ todo = <<>>
    /\ results = <<>>
    /\ strat = <<>>
    /\ columns = {}
    /\ sharpe = Unbound
    /\ mdd = Unbound
    /\ metrics = <<>>

SpecForward == InitForward /\ [][CallForwardReturns]_vars

(* ------------------------------ properties ----------------------------- *)
DatesOf(d) == { d[i].date : i \in DOMAIN d }
RowsOn(d, k) == { i \in DOMAIN d : d[i].date = k }
ValidOn(d, k) ==
    { i \in DOMAIN d : d[i].date = k /\ d[i].factor # NaN /\ d[i].fwd_return # NaN }

Returned == pc = "done"
Framed == pc \in {"ic", "done"}

(* the j-th smallest factor (from 0) among the rows V *)
OrderStat(d, V, j) ==
    CHOOSE v \in { d[i].factor : i \in V } :
        /\ Cardinality({ i \in V : Lt(d[i].factor, v) }) <= j
        /\ j < Cardinality({ i \in V : Le(d[i].factor, v) })

(* the (num/den)-quantile of the factor over the rows V, linearly interpolated *)
Interpolated(d, V, num, den) ==
    LET pos == num * (Cardinality(V) - 1)
        lo  == pos \div den
        hi  == IF pos % den = 0 THEN lo ELSE lo + 1
        xlo == OrderStat(d, V, lo)
        xhi == OrderStat(d, V, hi)
    IN  Add(xlo, Mul(Q(pos % den, den), Sub(xhi, xlo)))

RECURSIVE SumReturns(_, _)
SumReturns(d, V) ==
    IF V = {} THEN Zero
    ELSE LET i == CHOOSE i \in V : TRUE
         IN  Add(d[i].fwd_return, SumReturns(d, V \ {i}))

MeanReturn(d, V) == Div(SumReturns(d, V), Num(Cardinality(V)))

ExpectedReturn(d, k) ==
    LET V  == ValidOn(d, k)
        hi == Interpolated(d, V, 7, 10)
        lo == Interpolated(d, V, 3, 10)
    IN  Sub(MeanReturn(d, { i \in V : Ge(d[i].factor, hi) }),
            MeanReturn(d, { i \in V : Le(d[i].factor, lo) }))

RECURSIVE SumOver(_, _)
SumOver(f, V) ==
    IF V = {} THEN 0
    ELSE LET i == CHOOSE i \in V : TRUE IN f[i] + SumOver(f, V \ {i})

(* twice the average rank of x[i] among the x[j], j in V (0 outside V) *)
RankTable(x, V) ==
    Series([i \in DOMAIN x |->
        IF i \in V THEN 2 * Cardinality({ j \in V : Lt(x[j], x[i]) })
                          + Cardinality({ j \in V : x[j] = x[i] }) + 1
        ELSE 0])

(* Spearman's rho of the pairs (x[i], y[i]), i in V, as a signed square *)
ExpectedRho(x, y, V) ==
    LET n   == Cardinality(V)
        rx  == RankTable(x, V)
        ry  == RankTable(y, V)
        sx  == SumOver(rx, V)
        sy  == SumOver(ry, V)
        cov == (n * SumOver(Series([i \in DOMAIN x |-> rx[i] * ry[i]]), V) - sx * sy) \div n
        vx  == (n * SumOver(Series([i \in DOMAIN x |-> rx[i] * rx[i]]), V) - sx * sx) \div n
        vy  == (n * SumOver(Series([i \in DOMAIN x |-> ry[i] * ry[i]]), V) - sy * sy) \div n
    IN  Q(cov * Abs(cov), vx * vy)

PairedIdx(x, y) ==
    { i \in DOMAIN x \cap DOMAIN y : x[i] # NaN /\ y[i] # NaN }

ExpectedIC(x, y) ==
    IF Cardinality(PairedIdx(x, y)) < 5 THEN NaN
    ELSE ExpectedRho(x, y, PairedIdx(x, y))

AllSmall == \A k \in DatesOf(df) : Cardinality(ValidOn(df, k)) < 10
AllAmple == \A k \in DatesOf(df) : Cardinality(ValidOn(df, k)) >= 10

(* C1: a date with fewer than 10 rows in which both the factor and the     *)
(* forward return are defined has no record, neither among the collected   *)
(* results nor in the daily series.                                        *)
C1_SmallDatesOmitted ==
    \A k \in DatesOf(df) :
        Cardinality(ValidOn(df, k)) < 10 =>
            /\ \A i \in DOMAIN results : results[i].date # k
            /\ \A i \in DOMAIN strat : strat[i].date # k

C1_Witness ==
    /\ Returned
    /\ strat # <<>>
    /\ \E k \in DatesOf(df) :
          /\ Cardinality(ValidOn(df, k)) < 10
          /\ Cardinality(RowsOn(df, k)) >= 10
          /\ \A i \in DOMAIN strat : strat[i].date # k

(* C2: the strategy_return of every emitted date is the mean forward       *)
(* return of its valid rows with factor >= the 0.7 quantile minus that of  *)
(* its valid rows with factor <= the 0.3 quantile, both quantiles linearly *)
(* interpolated over the valid rows of the date only.                      *)
C2_LongMinusShort ==
    /\ \A i \in DOMAIN results :
          results[i].strategy_return = ExpectedReturn(df, results[i].date)
    /\ \A i \in DOMAIN strat :
          strat[i].strategy_return = ExpectedReturn(df, strat[i].date)

C2_Witness ==
    /\ Returned
    /\ \E i \in DOMAIN strat :
          /\ \E j \in RowsOn(df, strat[i].date) :
                df[j].factor # NaN /\ df[j].fwd_return = NaN
          /\ strat[i].strategy_return # Zero

(* C3: in a non-empty daily series cum_return is the running product:      *)
(* cum_return[0] = 1 + strategy_return[0] and                              *)
(* cum_return[i] = cum_return[i-1] * (1 + strategy_return[i]).             *)
C3_RunningProduct ==
    Framed /\ strat # <<>> =>
        /\ strat[1].cum_return = Add(One, strat[1].strategy_return)
        /\ \A i \in 2..Len(strat) :
              strat[i].cum_return =
                  Mul(strat[i - 1].cum_return, Add(One, strat[i].strategy_return))

C3_Witness ==
    /\ Returned
    /\ Len(strat) >= 2
    /\ \A i \in DOMAIN strat : strat[i].strategy_return \notin {Zero, Num(-1)}

(* C4: the daily series is strictly increasing by date, whatever the order *)
(* of the input rows.                                                      *)
C4_StrictlyIncreasingDates ==
    \A i, j \in DOMAIN strat : i < j => strat[i].date < strat[j].date

C4_Witness ==
    /\ Returned
    /\ Len(strat) >= 2
    /\ df[1].date > df[Len(df)].date

(* C5: every date with at least 10 valid rows has exactly one record in    *)
(* the daily series, so a panel whose dates all have at least 10 valid     *)
(* rows yields one record per date.                                        *)
C5_AmpleDatesEmitted ==
    Framed =>
        /\ \A k \in DatesOf(df) :
              Cardinality(ValidOn(df, k)) >= 10 =>
                  Cardinality({ i \in DOMAIN strat : strat[i].date = k }) = 1
        /\ AllAmple => Len(strat) = Cardinality(DatesOf(df))

C5_Witness ==
    /\ Returned
    /\ AllAmple
    /\ Len(strat) = Cardinality(DatesOf(df))
    /\ \E k \in DatesOf(df) :
          \A i, j \in ValidOn(df, k) : df[i].factor = df[j].factor

(* C6: when every date has fewer than 10 valid rows the call returns an    *)
(* empty daily series that has the strategy_return and cum_return columns, *)
(* and metrics with the keys IC, Sharpe and MaxDD in which Sharpe and      *)
(* MaxDD are NaN.                                                          *)
C6_EmptyResultWellFormed ==
    Returned /\ AllSmall =>
        /\ strat = <<>>
        /\ {"strategy_return", "cum_return"} \subseteq columns
        /\ {"IC", "Sharpe", "MaxDD"} \subseteq DOMAIN metrics
        /\ isna(metrics.Sharpe)
        /\ isna(metrics.MaxDD)

C6_Witness ==
    /\ Returned
    /\ AllSmall
    /\ strat = <<>>
    /\ "cum_return" \in columns

(* C7: the returned IC is the rank correlation over all rows of the input  *)
(* with both values defined, the rows of skipped dates included.           *)
C7_ICOverAllRows ==
    Returned =>
        metrics.IC = ExpectedIC(Series([i \in DOMAIN df |-> df[i].factor]),
                                Series([i \in DOMAIN df |-> df[i].fwd_return]))

C7_Witness ==
    /\ Returned
    /\ strat = <<>>
    /\ metrics.IC # NaN

(* C8: compute_ic drops every pair with an undefined value; with fewer     *)
(* than 5 pairs left it returns NaN, otherwise the Spearman correlation of *)
(* the remaining pairs.                                                    *)
C8_ComputeIC ==
    call.fn = "compute_ic" /\ ret # Unbound => ret = ExpectedIC(call.a, call.b)

C8_Witness ==
    /\ call.fn = "compute_ic"
    /\ ret # Unbound
    /\ \E i \in DOMAIN call.a : call.a[i] = NaN
    /\ Cardinality(PairedIdx(call.a, call.b)) = 5
    /\ ret \notin {NaN, One, Num(-1)}

ZeroStd(a) ==
    /\ Cardinality({ i \in DOMAIN a : a[i] # NaN }) >= 2
    /\ \A i, j \in DOMAIN a : a[i] # NaN /\ a[j] # NaN => a[i] = a[j]

(* C9: sharpe_ratio returns NaN whenever the sample standard deviation of  *)
(* the returns is exactly zero, and never returns an infinite value.       *)
C9_SharpeZeroVol ==
    call.fn = "sharpe_ratio" /\ ret # Unbound =>
        /\ ZeroStd(call.a) => ret = NaN
        /\ ret \notin {Inf, Neg(Inf)}

C9_Witness ==
    /\ call.fn = "sharpe_ratio"
    /\ ret = NaN
    /\ ZeroStd(call.a)
    /\ \E i \in DOMAIN call.a : call.a[i] = Num(1)

(* C10 as stated: MaxDD is <= 0 for every non-empty daily series and is    *)
(* undefined when the series is empty.                                     *)
C10_MaxDDNonPositive ==
    Returned =>
        IF strat = <<>> THEN isna(metrics.MaxDD) ELSE Le(metrics.MaxDD, Zero)

(* C10 amended: MaxDD is <= 0 for every non-empty daily series whose first *)
(* strategy_return is not -1, and is undefined when the series is empty or *)
(* its first strategy_return is exactly -1 (cum_return is then 0           *)
(* throughout and every drawdown is 0/0).                                  *)
C10_MaxDDNonPositiveOrNaN ==
    Returned =>
        IF strat = <<>> \/ strat[1].strategy_return = Num(-1)
        THEN isna(metrics.MaxDD)
        ELSE Le(metrics.MaxDD, Zero)

C10_Witness ==
    /\ Returned
    /\ Len(strat) >= 2
    /\ Lt(metrics.MaxDD, Zero)

(* C11 (as stated): max_drawdown returns exactly 0 for every strictly      *)
(* increasing cumulative-return series and for every single-element series *)
StrictlyIncreasing(a) == \A i \in 1..(Len(a) - 1) : Lt(a[i], a[i + 1])

C11_ZeroDrawdown ==
    (call.fn = "max_drawdown" /\ ret # Unbound /\ Len(call.a) >= 1
        /\ (Len(call.a) = 1 \/ StrictlyIncreasing(call.a)))
    => ret = Zero

(* C11 (amended): max_drawdown returns exactly 0 for every strictly        *)
(* increasing series of two or more values and for every single-element    *)
(* series whose element is not 0; on the single-element series [0] the     *)
(* ratio is 0/0 and the result is NaN                                      *)
C11_ZeroDrawdownUnlessZeroAlone ==
    (call.fn = "max_drawdown" /\ ret # Unbound /\ Len(call.a) >= 1
        /\ (Len(call.a) = 1 \/ StrictlyIncreasing(call.a)))
    => IF call.a = <<Zero>> THEN ret = NaN ELSE ret = Zero

C11_Witness ==
    /\ call.fn = "max_drawdown"
    /\ Len(call.a) >= 3
    /\ call.a[1] = Zero
    /\ StrictlyIncreasing(call.a)
    /\ ret = Zero

(* the frame returned by the k-th call of compute_factors *)
Output(k) == heap[out[k]]

(* C12: every row returned by compute_factors has both the lagged          *)
(* sentiment SENT_L1 and the shock SENT_SHOCK defined                      *)
C12_FactorsDefined ==
    \A k \in DOMAIN out : \A i \in DOMAIN Output(k).rows :
        /\ notna(Output(k).rows[i].SENT_L1)
        /\ notna(Output(k).rows[i].SENT_SHOCK)

C12_Witness ==
    /\ Len(out) >= 1
    /\ Output(1).rows # <<>>
    /\ Len(Output(1).rows) < Len(call.a.rows)
    /\ \E i \in DOMAIN call.a.rows : isna(call.a.rows[i].avg_sentiment)

(* the argument of the call, and its observations *)
Given == call.a.rows
Has(k, d) == \E i \in DOMAIN Given : Given[i].ticker = k /\ Given[i].date = d
SentimentOf(k, d) ==
    (CHOOSE r \in {Given[i] : i \in DOMAIN Given} : r.ticker = k /\ r.date = d).avg_sentiment

(* the frame the n-th call worked on, before its final dropna *)
Worked(n) == heap[out[n] - 1]
InOutput(n, k, d) ==
    \E i \in DOMAIN Output(n).rows :
        Output(n).rows[i].ticker = k /\ Output(n).rows[i].date = d
ShockOf(n, k, d) ==
    (CHOOSE r \in {Worked(n).rows[i] : i \in DOMAIN Worked(n).rows} :
        r.ticker = k /\ r.date = d).SENT_SHOCK

(* day d lies in three days in a row on which ticker k has one and the     *)
(* same sentiment                                                          *)
InConstantRun(k, d) ==
    \E s \in (d - 2)..d : \A e \in s..(s + 2) :
        Has(k, e) /\ notna(SentimentOf(k, e)) /\ SentimentOf(k, e) = SentimentOf(k, d)

(* C13 (as stated): every day that belongs to a run of at least three      *)
(* consecutive days of constant sentiment has an undefined shock and is    *)
(* absent from the output of compute_factors                               *)
C13_ConstantRunDropped ==
    \A n \in DOMAIN out : \A i \in DOMAIN Given :
        InConstantRun(Given[i].ticker, Given[i].date)
        => /\ isna(ShockOf(n, Given[i].ticker, Given[i].date))
           /\ ~InOutput(n, Given[i].ticker, Given[i].date)

(* the dates before d on which ticker k is observed *)
Earlier(k, d) == { e \in 1..(d - 1) : Has(k, e) }
Latest(S) == CHOOSE e \in S : \A x \in S : x <= e

(* the observation of ticker k on day d has the sentiment of the ticker's  *)
(* two observations immediately before it                                  *)
ThirdOfRun(k, d) ==
    /\ Cardinality(Earlier(k, d)) >= 2
    /\ LET p1 == Latest(Earlier(k, d))
           p2 == Latest(Earlier(k, p1))
       IN  /\ notna(SentimentOf(k, d))
           /\ SentimentOf(k, p1) = SentimentOf(k, d)
           /\ SentimentOf(k, p2) = SentimentOf(k, d)

(* C13 (amended): for every ticker, every observation whose sentiment      *)
(* equals that of the ticker's two immediately preceding observations (the *)
(* third and every later day of a constant run) has an undefined shock and *)
(* is absent from the output of compute_factors                            *)
C13_ThirdOfRunDropped ==
    \A n \in DOMAIN out : \A i \in DOMAIN Given :
        ThirdOfRun(Given[i].ticker, Given[i].date)
        => /\ isna(ShockOf(n, Given[i].ticker, Given[i].date))
           /\ ~InOutput(n, Given[i].ticker, Given[i].date)

C13_Witness ==
    /\ Len(out) >= 1
    /\ \E i, j \in DOMAIN Given :
          /\ Given[i].ticker = Given[j].ticker
          /\ ThirdOfRun(Given[i].ticker, Given[i].date)
          /\ InOutput(1, Given[j].ticker, Given[j].date)
          /\ InConstantRun(Given[j].ticker, Given[j].date)

(* C14: each output row of compute_factors for (d, k) carries the          *)
(* sentiment of the input row (d, k) and a lagged sentiment equal to the   *)
(* sentiment of ticker k's immediately preceding observation in date       *)
(* order, whatever the order of the input rows                             *)
C14_LagFromPrecedingObservation ==
    \A n \in DOMAIN out : \A i \in DOMAIN Output(n).rows :
        LET r == Output(n).rows[i]
        IN  /\ Has(r.ticker, r.date)
            /\ r.avg_sentiment = SentimentOf(r.ticker, r.date)
            /\ Earlier(r.ticker, r.date) # {}
            /\ r.SENT_L1 = SentimentOf(r.ticker, Latest(Earlier(r.ticker, r.date)))

C14_Witness ==
    /\ Len(out) >= 1
    /\ Len(Given) >= 2
    /\ Given[1].date > Given[Len(Given)].date
    /\ \E i, j \in DOMAIN Output(1).rows :
          /\ Output(1).rows[i].ticker = 1
          /\ Output(1).rows[j].ticker = 2
          /\ ~Has(1, Output(1).rows[i].date - 1)
          /\ Output(1).rows[i].SENT_L1 # Output(1).rows[i].avg_sentiment

(* C15: calling compute_factors twice on the same panel yields identical   *)
(* output, and the caller's panel is the same object content after each    *)
(* call as before the first                                                *)
C15_SameOutputPanelUntouched ==
    /\ (call.fn = "compute_factors" /\ Len(out) >= 1) => heap[sentiment] = call.a
    /\ Len(out) = 2 => Output(1) = Output(2)

C15_Witness ==
    /\ Len(out) = 2
    /\ out[1] # out[2]
    /\ Output(2).rows # <<>>
    /\ Given[1].date > Given[Len(Given)].date

C16_AbsentFactorRaises ==
    /\ (pc = "done" /\ call.fn = "run_longshort" /\ call.b \notin call.a.columns)
          => (raised # "none" /\ ret = Unbound)
    /\ (pc = "done" /\ call.fn = "compute_factor" /\ call.b \notin {"SENT_L1", "SENT_SHOCK"})
          => (raised # "none" /\ ret = Unbound)

C16_Witness ==
    /\ pc = "done"
    /\ call.fn = "run_longshort"
    /\ call.a.rows = <<>>
    /\ "date" \in call.a.columns
    /\ call.b \notin call.a.columns
    /\ raised = "KeyError"

(* the JSON texts, and the value each one stands for *)
ScalarOf(tok) ==
    IF tok = "null" THEN None
    ELSE IF tok = "0.5" THEN Number(Q(1, 2))
    ELSE String("IC")
Scalars == {"null", "0.5", "\"IC\""}
ValidJson(text) ==
    \/ Len(text) = 1 /\ text[1] \in Scalars
    \/ text = <<"{", "}">>
    \/ Len(text) = 5 /\ text[4] \in Scalars /\ text = <<"{", "\"IC\"", ":", text[4], "}">>
    \/ text = <<"{", "\"IC\"", ":", "{", "}", "}">>
Stored(text) ==
    IF Len(text) = 1 THEN ScalarOf(text[1])
    ELSE IF Len(text) = 2 THEN Object(NoMembers)
    ELSE IF Len(text) = 5 THEN Object("IC" :> ScalarOf(text[4]))
    ELSE Object("IC" :> Object(NoMembers))
HoldsValidJson ==
    /\ call.a \in DOMAIN fs
    /\ fs[call.a].kind = "file"
    /\ ValidJson(fs[call.a].text)

(* C17: last_metrics never raises; it returns the default mapping, all     *)
(* four entries null, when the metrics file is absent or cannot be parsed, *)
(* the stored value when the file holds valid JSON, and in every case the  *)
(* curve path it was given                                                 *)
C17_LastMetricsTotal ==
    (call.fn = "last_metrics" /\ pc = "done")
    => /\ raised = "none"
       /\ ret.equity_curve_path = call.b
       /\ ret.metrics = IF HoldsValidJson THEN Stored(fs[call.a].text) ELSE DefaultMetrics

C17_Witness ==
    /\ call.fn = "last_metrics"
    /\ pc = "done"
    /\ call.a \in DOMAIN fs
    /\ fs[call.a].kind = "file"
    /\ Len(fs[call.a].text) = 5
    /\ ~ValidJson(fs[call.a].text)
    /\ fs[call.a].text[1] = "{"
    /\ ret.metrics = DefaultMetrics

(* the result of run_longshort on the rows of df taken in reverse, its     *)
(* dates processed in increasing order                                     *)
OnReversed ==
    run_longshort([columns |-> {"date", "factor", "fwd_return"},
                   rows |-> Indexed(Reverse(df))], "factor", "fwd_return").ret

(* C18: the daily series and the metrics returned by run_longshort are the *)
(* same for every order in which the dates are processed and for the input *)
(* rows in either direction                                                *)
C18_OrderIndependent ==
    Returned => [daily |-> strat, metrics |-> metrics] = OnReversed

C18_Witness ==
    /\ Returned
    /\ Len(results) >= 2
    /\ results[1].date > results[2].date
    /\ results[1].strategy_return # results[2].strategy_return
    /\ notna(metrics.IC)

(* C19: in the daily series returned by run_longshort, cum_return is       *)
(* non-decreasing in index position whenever every strategy_return is >= 0 *)
C19_CumReturnMonotone ==
    (Framed /\ \A i \in DOMAIN strat : Ge(strat[i].strategy_return, Zero))
    => \A i \in 1..(Len(strat) - 1) : Le(strat[i].cum_return, strat[i + 1].cum_return)

C19_Witness ==
    /\ Returned
    /\ Len(strat) >= 2
    /\ \A i \in DOMAIN strat : Ge(strat[i].strategy_return, Zero)
    /\ Gt(strat[1].strategy_return, Zero)
    /\ strat[2].strategy_return = Zero
    /\ strat[2].cum_return = strat[1].cum_return

(* C21 helpers: the price table of the call, read without the model's      *)
(* operators: the last close a ticker has at or before row i               *)
PriceRow(t) == CHOOSE i \in DOMAIN call.a.dates : call.a.dates[i] = t
KnownUpTo(k, i) == { j \in 1..i : call.a.close[k][j] # NaN }
LastKnown(k, i) ==
    IF KnownUpTo(k, i) = {} THEN NaN
    ELSE call.a.close[k][CHOOSE j \in KnownUpTo(k, i) : \A l \in KnownUpTo(k, i) : l <= j]
PanelRan == call.fn = "run_backtest_from_panel" /\ pc = "done" /\ raised = "none"

Ranked == call.fn = "rank_and_portfolio" /\ pc = "done"
WeightsOn(d) == Column(Group(ret, d), "weight")

(* C22: with long_p = short_p = 0.2, on every date where some row is       *)
(* selected the weights of the date sum to zero.                           *)
C22_DollarNeutral ==
    Ranked =>
        \A d \in {ret[i].date : i \in DOMAIN ret} :
            (\E i \in DOMAIN WeightsOn(d) : WeightsOn(d)[i] # Zero)
                => SumSeq(WeightsOn(d)) = Zero

(* C23 helpers: the observations of ticker k in the given panel and its    *)
(* rows in the n-th output                                                 *)
Observations(k) == { d \in 1..MaxDays : Has(k, d) }
OutputRows(n, k) == { i \in DOMAIN Output(n).rows : Output(n).rows[i].ticker = k }

(* C23: the first two observations of every ticker never appear in the     *)
(* output of compute_factors, so a ticker with k observations has at most  *)
(* k - 2 output rows and one with fewer than 3 observations has none       *)
C23_FirstTwoObservationsDropped ==
    \A n \in DOMAIN out : \A k \in {1, 2} :
        /\ \A d \in Observations(k) : Cardinality(Earlier(k, d)) < 2 => ~InOutput(n, k, d)
        /\ Cardinality(Observations(k)) >= 3
               => Cardinality(OutputRows(n, k)) <= Cardinality(Observations(k)) - 2
        /\ Cardinality(Observations(k)) < 3 => OutputRows(n, k) = {}

(* a call whose output has exactly k - 2 rows of a ticker with k = 4       *)
(* observations, next to a ticker without output rows                      *)
C23_Witness ==
    /\ Len(out) >= 1
    /\ Cardinality(Observations(2)) = MaxDays
    /\ Cardinality(OutputRows(1, 2)) = MaxDays - 2
    /\ Cardinality(Observations(1)) = 2
    /\ OutputRows(1, 1) = {}

(* C24 helpers: the labels of the rows of date k that the loop puts in the *)
(* long and in the short bucket, and the rows whose factor lies between    *)
(* the two thresholds, computed from the panel alone                       *)
LongLabels(k) ==
    Labels(Longs(Group(df, k), DailyVal(Group(df, k)),
                 quantile(Column(DailyVal(Group(df, k)), "factor"), high)))
ShortLabels(k) ==
    Labels(Shorts(Group(df, k), DailyVal(Group(df, k)),
                  quantile(Column(DailyVal(Group(df, k)), "factor"), low)))
Within(V, hi, lo) == { df[i].idx : i \in { j \in V : Ge(df[j].factor, hi) /\ Le(df[j].factor, lo) } }
Between(k) ==
    Within(ValidOn(df, k), Interpolated(df, ValidOn(df, k), 7, 10),
           Interpolated(df, ValidOn(df, k), 3, 10))
AllEqual(k) == \A i, j \in ValidOn(df, k) : df[i].factor = df[j].factor
Emitted(k) == \E i \in DOMAIN strat : strat[i].date = k

(* C24: on an emitted date a row is in both buckets exactly when its       *)
(* factor lies between the two thresholds inclusive, which needs the 0.3   *)
(* and 0.7 quantiles to coincide; a date with at least 10 valid rows whose *)
(* valid factors are all equal has every valid row in both buckets, is     *)
(* emitted, and has strategy_return 0.                                     *)
C24_BucketsMayOverlap ==
    Returned =>
        \A k \in DatesOf(df) :
            /\ Emitted(k) =>
                  /\ LongLabels(k) \cap ShortLabels(k) = Between(k)
                  /\ Between(k) # {} =>
                        Interpolated(df, ValidOn(df, k), 3, 10)
                            = Interpolated(df, ValidOn(df, k), 7, 10)
            /\ (Cardinality(ValidOn(df, k)) >= 10 /\ AllEqual(k)) =>
                  /\ LongLabels(k) = { df[i].idx : i \in ValidOn(df, k) }
                  /\ ShortLabels(k) = { df[i].idx : i \in ValidOn(df, k) }
                  /\ \E i \in DOMAIN strat :
                        strat[i].date = k /\ strat[i].strategy_return = Zero

(* a returned run with a date of equal factors and returns other than 0,   *)
(* next to a date whose buckets are disjoint                               *)
C24_Witness ==
    /\ Returned
    /\ \E k \in DatesOf(df) :
          /\ AllEqual(k)
          /\ Emitted(k)
          /\ \E i \in ValidOn(df, k) : df[i].fwd_return # Zero
    /\ \E k \in DatesOf(df) : Emitted(k) /\ Between(k) = {}

(* C25: when exactly one date survives, the daily series has one record    *)
(* with cum_return = 1 + strategy_return, Sharpe is NaN, MaxDD is 0 unless *)
(* the strategy_return is -1, and the run returns.                         *)
C25_SingleDate ==
    (pc \in {"ic", "done"} /\ Len(results) = 1) =>
        /\ Len(strat) = 1
        /\ strat[1].date = results[1].date
        /\ strat[1].strategy_return = results[1].strategy_return
        /\ strat[1].cum_return = Add(One, results[1].strategy_return)
        /\ sharpe = NaN
        /\ results[1].strategy_return # Num(-1) => mdd = Zero
        /\ raised = "none"
        /\ Returned => (metrics.Sharpe = NaN /\ metrics.MaxDD = mdd)

(* a returned run in which one of two dates survives with a loss *)
C25_Witness ==
    /\ Returned
    /\ Len(strat) = 1
    /\ Cardinality(DatesOf(df)) >= 2
    /\ Lt(strat[1].strategy_return, Zero)
    /\ strat[1].strategy_return # Num(-1)
    /\ metrics.MaxDD = Zero

(* C26 helpers: the rows of ticker k dated on or before d, alone and in    *)
(* date order, the output of compute_factors on them, and the columns of   *)
(* the output rows of (k, d)                                               *)
Cut(k, d) ==
    LET days == SortInts({ e \in 1..d : Has(k, e) })
    IN  IndexedFrame(Series([i \in DOMAIN days |->
                         SentimentRow(days[i], k, SentimentOf(k, days[i]))]), Schema)
Alone(k, d) ==
    LET r == compute_factors(<<Cut(k, d)>>, 1) IN r.heap[r.ret].rows
Stripped(rows, k, d) ==
    { [c \in DOMAIN rows[i] \ {"idx"} |-> rows[i][c]] :
          i \in { j \in DOMAIN rows : rows[j].ticker = k /\ rows[j].date = d } }

SameRow(k, d, alone) == \A n \in DOMAIN out : Stripped(Output(n).rows, k, d) = alone

(* C26: the output row of compute_factors for (d, k), or its absence, is   *)
(* the one obtained from ticker k's rows dated on or before d alone, so it *)
(* is the same for any two panels that agree on those rows                 *)
C26_NoLookAheadNoLeakage ==
    out # <<>> =>
        \A k \in {1, 2} : \A d \in Observations(k) :
            SameRow(k, d, Stripped(Alone(k, d), k, d))

(* a panel with both tickers in which ticker 1 has an output row on a day  *)
(* before its last observation                                             *)
C26_Witness ==
    /\ Len(out) >= 1
    /\ Observations(2) # {}
    /\ \E d \in Observations(1) :
          /\ InOutput(1, 1, d)
          /\ \E e \in Observations(1) : e > d

(* C27 helpers: the quotes of ticker k in date order, the last close known *)
(* at or before the j-th of them, and the returned row of (k, j-th date)   *)
Forwarded == call.fn = "forward_returns" /\ pc = "done"
QuoteDays(k) == SortInts({ call.a[i].date : i \in { j \in DOMAIN call.a : call.a[j].ticker = k } })
CloseOn(k, d) ==
    (CHOOSE r \in { call.a[i] : i \in DOMAIN call.a } : r.ticker = k /\ r.date = d).close
KnownClose(k, j) ==
    LET K == { l \in 1..j : CloseOn(k, QuoteDays(k)[l]) # NaN }
    IN  IF K = {} THEN NaN
        ELSE CloseOn(k, QuoteDays(k)[CHOOSE l \in K : \A m \in K : m <= l])
ForwardOf(k, d) ==
    (CHOOSE r \in { ret[i] : i \in DOMAIN ret } : r.ticker = k /\ r.date = d).fwd_ret_1d

(* C27 as stated: every row's fwd_ret_1d is close[t+1] / close[t] - 1 of   *)
(* the same ticker or undefined, and it is undefined on the last row of    *)
(* every ticker.                                                           *)
C27_OwnNextCloseOrUndefined ==
    Forwarded =>
        \A k \in {1, 2} : \A j \in DOMAIN QuoteDays(k) :
            /\ \/ ForwardOf(k, QuoteDays(k)[j]) = NaN
               \/ /\ j < Len(QuoteDays(k))
                  /\ ForwardOf(k, QuoteDays(k)[j]) =
                         Sub(Div(CloseOn(k, QuoteDays(k)[j + 1]),
                                 CloseOn(k, QuoteDays(k)[j])), One)
            /\ j = Len(QuoteDays(k)) => ForwardOf(k, QuoteDays(k)[j]) = NaN

(* C27 amended: every row's fwd_ret_1d is computed from its own ticker's   *)
(* closes only: it is c[t+1] / c[t] - 1, where c is the close or, where    *)
(* pct_change pads, the ticker's last known close, or undefined; it is     *)
(* undefined on the last row of every ticker.                              *)
C27_OwnTickerOnly ==
    Forwarded =>
        \A k \in {1, 2} : \A j \in DOMAIN QuoteDays(k) :
            ForwardOf(k, QuoteDays(k)[j]) =
                IF j = Len(QuoteDays(k)) THEN NaN
                ELSE IF call.b = "pad"
                THEN Sub(Div(KnownClose(k, j + 1), KnownClose(k, j)), One)
                ELSE Sub(Div(CloseOn(k, QuoteDays(k)[j + 1]),
                             CloseOn(k, QuoteDays(k)[j])), One)

(* two tickers, the first with a defined return on a row before its last *)
C27_Witness ==
    /\ Forwarded
    /\ Len(QuoteDays(1)) >= 2
    /\ Len(QuoteDays(2)) >= 2
    /\ ForwardOf(1, 1) \notin {NaN, Zero}
    /\ ForwardOf(1, QuoteDays(1)[Len(QuoteDays(1))]) = NaN

====
